---- MODULE Spec2Model ----
(***************************************************************************)
(* tap-salesforce: tap_salesforce/__init__.py as a state machine: the sync  *)
(* half (build_state, do_sync, main_impl, main) and the discovery half     *)
(* (get_replication_key, create_property_schema, do_discover).             *)
(*                                                                         *)
(* Cursor values are ordered scalars; they are modelled by the naturals    *)
(* 1..MaxCursor.  EmptyString (0) is the empty string: it is smaller than  *)
(* every timestamp and it is falsy in Python.  NoneValue is Python's None. *)
(***************************************************************************)
EXTENDS Integers, Sequences, FiniteSets, TLC

\* ---------------------------------------------------------------- bounds
MaxRecs == 2
MaxCursor == 2
MaxFields == 2

\* ------------------------------------------------------------- constants
None == "None"
NoneValue == -1
EmptyString == 0

\* The entities of the catalog, in catalog (discovery) order.
StreamIds == <<"Account", "Lead">>
NumStreams == Len(StreamIds)
StreamIdSet == {StreamIds[i] : i \in 1..NumStreams}

\* replication keys the catalog entries and the previous State use
ReplicationKeys == {"SystemModstamp"}
OtherKey == "CreatedDate"

CursorValues == 1..MaxCursor

\* Names bound at module level by the import statements.
Imports == {"json", "re", "Salesforce", "sf_type_to_json_schema",
            "TapSalesforceException", "singer", "metrics", "utils",
            "transform", "UNIX_MILLISECONDS_INTEGER_DATETIME_PARSING",
            "Transformer", "_transform_datetime"}

TapSalesforceException == "TapSalesforceException"
\* The exception classes a step of the run may raise: the operational one
\* and two others (a NameError and a KeyError raised by the run itself).
ExceptionClasses == {TapSalesforceException, "NameError", "KeyError"}

\* Python truthiness of a bookmark value / of a replication key.
Truthy(v) == v \notin {NoneValue, EmptyString}
TruthyKey(k) == k # None

EmptyMap == [x \in {} |-> 0]

\* ------------------------------------------------------ singer bookmarks
\* singer.get_bookmark(state, tap_stream_id, key): None when absent.
get_bookmark(st, tap_stream_id, key) ==
    IF tap_stream_id \in DOMAIN st /\ key \in DOMAIN st[tap_stream_id]
    THEN st[tap_stream_id][key]
    ELSE NoneValue

\* singer.write_bookmark(state, tap_stream_id, key, val)
write_bookmark(st, tap_stream_id, key, val) ==
    LET old == IF tap_stream_id \in DOMAIN st THEN st[tap_stream_id] ELSE EmptyMap
    IN  [s \in DOMAIN st \cup {tap_stream_id} |->
            IF s = tap_stream_id
            THEN [k \in DOMAIN old \cup {key} |-> IF k = key THEN val ELSE old[k]]
            ELSE st[s]]

VARIABLES
    catalog,        \* args.properties['streams']
    source,         \* the remote records of each entity, as bulk_query reads them
    raw_state,      \* args.state
    start_date,     \* CONFIG['start_date']
    pc,             \* position of the process
    state,          \* the State document of the run
    selected_catalog_entries,
    entry,          \* index of catalog_entry in selected_catalog_entries
    iter,           \* what the bulk_query generator has still to yield
    record,         \* the record in hand (rec, then the transformed record)
    out,            \* events written downstream by this run
    queried,        \* tap_stream_ids bulk_query was called for, in order
    scopes,         \* the open context managers, innermost last
    logs,           \* LOGGER.critical calls
    raised,         \* the exception a step of the run raised, if any
    termination,    \* how the process ended
    prev_run,       \* the crashed run (its --state and its events), once resumed
    sobjects,       \* what salesforce.describe() answers: the entities and their fields
    rate_limit,     \* salesforce.rate_limit, as the last response left it
    catalog_file    \* what main_impl has dumped to /tmp/catalog.json

vars == <<catalog, source, raw_state, start_date, pc, state,
          selected_catalog_entries, entry, iter, record, out, queried,
          scopes, logs, raised, termination, prev_run,
          sobjects, rate_limit, catalog_file>>

\* the variables of the discovery branch of main_impl
discovery == <<sobjects, rate_limit, catalog_file>>

inputs == <<catalog, source, start_date>>

NoRecord == EmptyMap
NotTerminated == [path |-> "running", fault |-> None, status |-> NoneValue]
NoRun == [raw_state |-> EmptyMap, out |-> <<[type |-> "NONE"]>>]

\* ---------------------------------------------------------------- inputs
BoundedSeqs(S) == UNION {[1..n -> S] : n \in 0..MaxRecs}

\* the i-th remote record of an entity: its Id and, when the entity has a
\* cursor field, the value of that field
Rec(i, replication_key, c) ==
    IF replication_key = None
    THEN [f \in {"Id"} |-> i]
    ELSE [f \in {"Id", replication_key} |-> IF f = "Id" THEN i ELSE c]

CatalogOf(sel, rk) ==
    [i \in 1..NumStreams |->
        [stream |-> StreamIds[i], tap_stream_id |-> StreamIds[i],
         selected |-> sel[i], replication_key |-> rk[i]]]

SourceOf(cat, cur) ==
    [s \in StreamIdSet |->
        LET i == CHOOSE j \in 1..NumStreams : StreamIds[j] = s
        IN  [n \in 1..Len(cur[i]) |-> Rec(n, cat[i].replication_key, cur[i][n])]]

\* what a previous State document may hold for one entity: nothing, an empty
\* or a proper value at the replication key, or a value at another key
RawBookmarks ==
    {EmptyMap}
      \cup {[k \in {rk} |-> v] : rk \in ReplicationKeys, v \in {EmptyString, MaxCursor}}
      \cup {[k \in {OtherKey} |-> MaxCursor]}

\* the previous State documents given to build_state
RawStates ==
    UNION {[ids -> RawBookmarks \ {EmptyMap}] : ids \in SUBSET StreamIdSet}

\* the previous State documents a sync run is started from: those an earlier
\* run of the tap has emitted as a checkpoint, for any set of entities
CheckpointedStates ==
    UNION {[ids -> {[k \in {rk} |-> MaxCursor] : rk \in ReplicationKeys}] :
              ids \in SUBSET StreamIdSet}

\* ------------------------------------------------------------ build_state
RECURSIVE build_state_from(_, _, _, _, _)
build_state_from(raw, cat, sd, i, st) ==
    IF i > Len(cat) THEN st
    ELSE LET catalog_entry == cat[i]
             tap_stream_id == catalog_entry.tap_stream_id
             replication_key == catalog_entry.replication_key
             replication_key_value == get_bookmark(raw, tap_stream_id, replication_key)
         IN  IF catalog_entry.selected /\ TruthyKey(replication_key)
             THEN IF Truthy(replication_key_value)
                  THEN build_state_from(raw, cat, sd, i + 1,
                         write_bookmark(st, tap_stream_id, replication_key,
                                        replication_key_value))
                  ELSE build_state_from(raw, cat, sd, i + 1,
                         write_bookmark(st, tap_stream_id, replication_key, sd))
             ELSE build_state_from(raw, cat, sd, i + 1, st)

InitialState == EmptyMap

\* a variant that starts from the previous State instead of an empty one
build_state_merging(raw, cat, sd) == build_state_from(raw, cat, sd, 1, raw)

\* a variant that never reads the previous State
build_state_ignoring_previous(raw, cat, sd) ==
    build_state_from(EmptyMap, cat, sd, 1, InitialState)

\* a variant that starts a missing bookmark one step before start_date
build_state_with_lookback(raw, cat, sd) ==
    build_state_from(raw, cat, sd - 1, 1, InitialState)

build_state(raw, cat, sd) == build_state_from(raw, cat, sd, 1, InitialState)

\* -------------------------------------------------------------- bulk_query
\* The external bulk extractor: the records of the entity at or after the
\* bookmark of the State it is given, in the order the remote side holds them.
bulk_query(catalog_entry, st) ==
    LET id == catalog_entry.tap_stream_id
        rk == catalog_entry.replication_key
        bm == get_bookmark(st, id, rk)
        AtOrAfter(r) == r[rk] >= bm
    IN  IF rk # None /\ bm # NoneValue
        THEN SelectSeq(source[id], AtOrAfter)
        ELSE source[id]

\* transform_data_hook returns the data it is given
transform_data_hook(data) == data

\* a variant whose coercion rounds every cursor value up
transform_rounding_up(rec) ==
    [f \in DOMAIN rec |-> IF f = "Id" THEN rec[f] ELSE rec[f] + 1]

\* transformer.transform(rec, schema), with the pre-hook applied
transform(rec) == transform_data_hook(rec)

RecordEvent(catalog_entry, r) ==
    [type |-> "RECORD", stream |-> catalog_entry.stream, record |-> r, alias |-> None]

StateEvent(st) == [type |-> "STATE", value |-> st]

\* singer.write_record(stream, record, alias) appends one record event
write_record(o, catalog_entry, r) == Append(o, RecordEvent(catalog_entry, r))

\* a variant that skips a checkpoint equal to the last one written
write_state_unless_unchanged(o, st) ==
    IF o # <<>> /\ \E i \in 1..Len(o) :
                      /\ o[i] = StateEvent(st)
                      /\ \A j \in (i + 1)..Len(o) : o[j].type # "STATE"
    THEN o
    ELSE Append(o, StateEvent(st))

\* singer.write_state(state) appends one checkpoint holding the whole State
write_state(o, st) == Append(o, StateEvent(st))

\* a variant that never moves a bookmark backwards
do_sync_bookmark_max(st, catalog_entry, r) ==
    LET old == get_bookmark(st, catalog_entry.tap_stream_id,
                            catalog_entry.replication_key)
        new == r[catalog_entry.replication_key]
    IN  write_bookmark(st, catalog_entry.tap_stream_id,
                       catalog_entry.replication_key,
                       IF old > new THEN old ELSE new)

\* a variant that writes the record's Id where the cursor value belongs
do_sync_bookmark_wrong_field(st, catalog_entry, r) ==
    write_bookmark(st, catalog_entry.tap_stream_id,
                   catalog_entry.replication_key, r["Id"])

\* a variant that writes the cursor value to the bookmark of every stream
do_sync_bookmark_all_streams(st, catalog_entry, r) ==
    [s \in DOMAIN st \cup {catalog_entry.tap_stream_id} |->
        [k \in {catalog_entry.replication_key} |->
            r[catalog_entry.replication_key]]]

\* a variant that leaves the State as it is
do_sync_bookmark_skipped(st, catalog_entry, r) == st

\* the bookmark update of do_sync for the record r of catalog_entry
do_sync_bookmark(st, catalog_entry, r) ==
    write_bookmark(st, catalog_entry.tap_stream_id,
                   catalog_entry.replication_key,
                   r[catalog_entry.replication_key])

\* the position after write_record: the test of replication_key
after_write_record(replication_key) ==
    IF TruthyKey(replication_key) THEN "write_bookmark" ELSE "next_rec"

\* ------------------------------------------------------- context managers
\* with Transformer(...) as transformer: with metrics.record_counter(...) as
\* counter: both are entered, the counter inside the transformer
with_enter(s) == s \o <<"transformer", "counter">>

\* the end of the two with blocks: the two innermost managers are exited
with_exit(s) == SubSeq(s, 1, Len(s) - 2)

\* a variant in which the managers are entered without a with statement and
\* an exception leaves them open
unwind_leaking(s) == s

\* an exception leaves every with block it passes on its way to main
unwind(s) == <<>>

\* ------------------------------------------------------------------ main
\* sys.exit(status) as written in main: the name sys has to be bound
sys_exit(status) ==
    IF "sys" \in Imports
    THEN [path |-> "sys.exit", fault |-> "SystemExit", status |-> status]
    ELSE [path |-> "propagated", fault |-> "NameError", status |-> 1]

\* the except clauses of main, for an exception e raised out of main_impl:
\* what is logged at critical severity and how the process ends
main_except(e) ==
    IF e = TapSalesforceException
    THEN [logs |-> <<e>>, termination |-> sys_exit(1)]
    ELSE [logs |-> <<e>>,
          termination |-> [path |-> "propagated", fault |-> e, status |-> 1]]

\* main_impl returned: the interpreter exits normally
main_return == [path |-> "return", fault |-> None, status |-> 0]

\* a variant in which the record loop survives an exception of its body
after_raise_skipping_record(p) ==
    IF p \in {"transform", "write_record", "write_bookmark", "write_state"}
    THEN "next_rec"
    ELSE "exited"

\* where the process is once a step at position p has raised: do_sync and
\* main_impl have no handler, the exception unwinds to main
after_raise(p) == "exited"

\* -------------------------------------------------------------- discovery
\* the field names an entity description may carry: the primary key, a
\* composite field and one of its components, and the four cursor candidates
FieldNames == {"Id", "Name", "FirstName", "SystemModstamp", "LastModifiedDate",
               "CreatedDate", "LoginTime"}

\* what a field may give as its compoundFieldName: null, or the name of a
\* composite; "Address" is the name of no field
CompoundFieldNames == {None, "Name", "Id", "SystemModstamp", "Address"}

Fields ==
    [name : FieldNames, type : {"string"}, nillable : {TRUE},
     compoundFieldName : CompoundFieldNames]

\* sobject_description['fields']: the names of the fields of one entity are
\* distinct
FieldLists ==
    {fl \in UNION {[1..n -> Fields] : n \in 0..MaxFields} :
        \A i, j \in DOMAIN fl : fl[i].name = fl[j].name => i = j}

SobjectNames == {"Account", "LoginHistory"}

\* salesforce.rate_limit after a describe call: no value, an empty or another
\* string the pattern does not match, a string it matches
WellFormedRateLimit == "api-usage=12/100"
RateLimits == {None, "", "api-usage", WellFormedRateLimit}

fields_list(fields) == {fields[i].name : i \in DOMAIN fields}

\* a variant that prefers the creation date to the modification stamps
get_replication_key_created_first(sobject_name, fields) ==
    IF "CreatedDate" \in fields_list(fields) THEN "CreatedDate"
    ELSE IF "SystemModstamp" \in fields_list(fields) THEN "SystemModstamp"
    ELSE IF "LastModifiedDate" \in fields_list(fields) THEN "LastModifiedDate"
    ELSE IF "LoginTime" \in fields_list(fields) /\ sobject_name = "LoginHistory"
         THEN "LoginTime"
    ELSE None

get_replication_key(sobject_name, fields) ==
    IF "SystemModstamp" \in fields_list(fields) THEN "SystemModstamp"
    ELSE IF "LastModifiedDate" \in fields_list(fields) THEN "LastModifiedDate"
    ELSE IF "CreatedDate" \in fields_list(fields) THEN "CreatedDate"
    ELSE IF "LoginTime" \in fields_list(fields) /\ sobject_name = "LoginHistory"
         THEN "LoginTime"
    ELSE None

\* the remote type as a schema type, by nullability
sf_type_to_json_schema(type, nillable) == [sf_type |-> type, nillable |-> nillable]

\* a variant that gives the primary key no special inclusion
create_property_schema_all_available(field) ==
    <<[inclusion |-> "available", selected |-> FALSE,
       type |-> sf_type_to_json_schema(field.type, field.nillable)],
      field.compoundFieldName>>

\* (result, field['compoundFieldName'])
create_property_schema(field) ==
    <<[inclusion |-> IF field.name = "Id" THEN "automatic" ELSE "available",
       selected |-> FALSE,
       type |-> sf_type_to_json_schema(field.type, field.nillable)],
      field.compoundFieldName>>

\* the set compound_fields once the loop over the fields has ended
compound_fields(fields) ==
    {create_property_schema(fields[i])[2] :
        i \in {j \in DOMAIN fields : TruthyKey(create_property_schema(fields[j])[2])}}

\* a variant whose loop goes on to the next field once it has added a
\* compoundFieldName to compound_fields
properties_skipping_components(fields) ==
    [n \in {fields[i].name : i \in {j \in DOMAIN fields :
                                        ~TruthyKey(fields[j].compoundFieldName)}} |->
        LET i == CHOOSE j \in DOMAIN fields : fields[j].name = n
        IN  create_property_schema(fields[i])[1]]

\* the dict properties once the loop over the fields has ended: an
\* assignment to a key replaces the earlier one
properties(fields) ==
    [n \in fields_list(fields) |->
        LET i == CHOOSE j \in DOMAIN fields :
                    /\ fields[j].name = n
                    /\ \A k \in DOMAIN fields : fields[k].name = n => k <= j
        IN  create_property_schema(fields[i])[1]]

\* a variant that leaves the replication key as the loop made it
mark_replication_key_skipped(props, replication_key) == props

\* if replication_key: properties[replication_key]['inclusion'] = "automatic"
mark_replication_key(props, replication_key) ==
    IF TruthyKey(replication_key)
    THEN [props EXCEPT ![replication_key].inclusion = "automatic"]
    ELSE props

\* a variant that keeps the composite fields
schema_properties_unfiltered(props, compound) == props

\* {k:v for k,v in properties.items() if k not in compound_fields}
schema_properties(props, compound) ==
    [k \in DOMAIN props \ compound |-> props[k]]

\* the schema of one entity
schema_of(sobject_name, fields) ==
    [type |-> "object",
     additionalProperties |-> FALSE,
     selected |-> FALSE,
     properties |->
        schema_properties(
            mark_replication_key(properties(fields),
                                 get_replication_key(sobject_name, fields)),
            compound_fields(fields))]

\* the catalog entry of one entity
entry_of(sobject) ==
    [stream |-> sobject.name,
     tap_stream_id |-> sobject.name,
     schema |-> schema_of(sobject.name, sobject.fields),
     replication_key |-> get_replication_key(sobject.name, sobject.fields)]

\* re.search('^api-usage=(\d+)/(\d+)$', salesforce.rate_limit): a match, no
\* match, or the TypeError re raises for an argument that is not a string
re_search(header) ==
    IF header = None THEN "TypeError"
    ELSE IF header = WellFormedRateLimit THEN "match"
    ELSE "no match"

\* what do_discover returns
do_discover(sobjs) == [streams |-> [i \in DOMAIN sobjs |-> entry_of(sobjs[i])]]

NoFile == <<>>

\* ------------------------------------------------------------------- Init
InitRun ==
    /\ pc = "main_impl"
    /\ state = InitialState
    /\ selected_catalog_entries = <<>>
    /\ entry = 0
    /\ iter = <<>>
    /\ record = NoRecord
    /\ out = <<>>
    /\ queried = <<>>
    /\ scopes = <<>>
    /\ logs = <<>>
    /\ raised = None
    /\ termination = NotTerminated
    /\ prev_run = NoRun

InitInputs ==
    \E sel \in [1..NumStreams -> BOOLEAN],
       rk \in [1..NumStreams -> ReplicationKeys \cup {None}],
       cur \in [1..NumStreams -> BoundedSeqs(CursorValues)] :
        \* the records of an entity that is not selected are never read, and a
        \* record of an entity without a cursor field has only its Id
        /\ \A i \in 1..NumStreams :
              /\ ~sel[i] => cur[i] = <<>>
              /\ rk[i] = None => \A n \in 1..Len(cur[i]) : cur[i][n] = 1
        /\ catalog = CatalogOf(sel, rk)
        /\ source = SourceOf(CatalogOf(sel, rk), cur)

\* a run with --properties: nothing is described, nothing is dumped
NoDiscovery ==
    /\ sobjects = <<>>
    /\ rate_limit = None
    /\ catalog_file = NoFile

Init ==
    /\ InitInputs
    /\ raw_state \in CheckpointedStates
    /\ start_date \in CursorValues
    /\ InitRun
    /\ NoDiscovery

\* build_state alone, on every previous State document: no remote records
InitBuild ==
    /\ \E sel \in [1..NumStreams -> BOOLEAN],
          rk \in [1..NumStreams -> ReplicationKeys \cup {None}] :
           /\ catalog = CatalogOf(sel, rk)
           /\ source = SourceOf(CatalogOf(sel, rk), [i \in 1..NumStreams |-> <<>>])
    /\ raw_state \in RawStates
    /\ start_date \in CursorValues
    /\ InitRun
    /\ NoDiscovery

\* ---------------------------------------------------------------- actions
catalog_entry == selected_catalog_entries[entry]

\* a variant that takes every entry of the catalog
IsSelected_any(e) == TRUE

IsSelected(e) == e.selected

\* main_impl, sync branch: build_state(args.state, args.properties)
MainImpl ==
    /\ pc = "main_impl"
    /\ state' = build_state(raw_state, catalog, start_date)
    /\ pc' = "do_sync"
    /\ UNCHANGED <<inputs, discovery, raw_state, selected_catalog_entries, entry, iter,
                   record, out, queried, scopes, logs, raised, termination, prev_run>>

\* do_sync: the list of the selected entries
DoSync ==
    /\ pc = "do_sync"
    /\ selected_catalog_entries' = SelectSeq(catalog, IsSelected)
    /\ entry' = 1
    /\ pc' = "for_entry"
    /\ UNCHANGED <<inputs, discovery, raw_state, state, iter, record, out, queried,
                   scopes, logs, raised, termination, prev_run>>

\* the next catalog_entry: both context managers are entered and
\* salesforce.bulk_query(catalog_entry, state) is called
ForEntry ==
    /\ pc = "for_entry"
    /\ entry <= Len(selected_catalog_entries)
    /\ scopes' = with_enter(scopes)
    /\ iter' = bulk_query(catalog_entry, state)
    /\ queried' = Append(queried, catalog_entry.tap_stream_id)
    /\ pc' = "next_rec"
    /\ UNCHANGED <<inputs, discovery, raw_state, state, selected_catalog_entries, entry,
                   record, out, logs, raised, termination, prev_run>>

\* no entry is left: do_sync and main_impl return, main ends
Return ==
    /\ pc = "for_entry"
    /\ entry > Len(selected_catalog_entries)
    /\ termination' = main_return
    /\ pc' = "exited"
    /\ UNCHANGED <<inputs, discovery, raw_state, state, selected_catalog_entries, entry,
                   iter, record, out, queried, scopes, logs, raised,
                   prev_run>>

\* the generator yields rec; counter.increment()
NextRec ==
    /\ pc = "next_rec"
    /\ iter # <<>>
    /\ record' = Head(iter)
    /\ iter' = Tail(iter)
    /\ pc' = "transform"
    /\ UNCHANGED <<inputs, discovery, raw_state, state, selected_catalog_entries, entry,
                   out, queried, scopes, logs, raised, termination, prev_run>>

\* the generator is exhausted: both with blocks are left
EndOfStream ==
    /\ pc = "next_rec"
    /\ iter = <<>>
    /\ scopes' = with_exit(scopes)
    /\ record' = NoRecord
    /\ entry' = entry + 1
    /\ pc' = "for_entry"
    /\ UNCHANGED <<inputs, discovery, raw_state, state, selected_catalog_entries, iter,
                   out, queried, logs, raised, termination, prev_run>>

\* record = transformer.transform(rec, catalog_entry['schema'])
Transform ==
    /\ pc = "transform"
    /\ record' = transform(record)
    /\ pc' = "write_record"
    /\ UNCHANGED <<inputs, discovery, raw_state, state, selected_catalog_entries, entry,
                   iter, out, queried, scopes, logs, raised, termination, prev_run>>

\* singer.write_record(...); then the test of replication_key
WriteRecord ==
    /\ pc = "write_record"
    /\ out' = write_record(out, catalog_entry, record)
    /\ pc' = after_write_record(catalog_entry.replication_key)
    /\ UNCHANGED <<inputs, discovery, raw_state, state, selected_catalog_entries, entry,
                   iter, record, queried, scopes, logs, raised, termination, prev_run>>

\* singer.write_bookmark(state, tap_stream_id, replication_key, record[replication_key])
WriteBookmark ==
    /\ pc = "write_bookmark"
    /\ state' = do_sync_bookmark(state, catalog_entry, record)
    /\ pc' = "write_state"
    /\ UNCHANGED <<inputs, discovery, raw_state, selected_catalog_entries, entry, iter,
                   record, out, queried, scopes, logs, raised, termination, prev_run>>

\* singer.write_state(state)
WriteState ==
    /\ pc = "write_state"
    /\ out' = write_state(out, state)
    /\ pc' = "next_rec"
    /\ UNCHANGED <<inputs, discovery, raw_state, state, selected_catalog_entries, entry,
                   iter, record, queried, scopes, logs, raised, termination, prev_run>>

\* the positions at which a call of the run can raise: login in main_impl,
\* bulk_query (the call and every pull), the transformer, the two emissions
\* and the bookmark update
CanRaise ==
    \/ pc \in {"main_impl", "next_rec", "transform", "write_record",
               "write_bookmark", "write_state"}
    \/ pc = "for_entry" /\ entry <= Len(selected_catalog_entries)

\* a step raises e: the with blocks are left as the exception unwinds, and
\* main's except clause handles it
Fail(e) ==
    /\ CanRaise
    /\ scopes' = unwind(scopes)
    /\ logs' = logs \o main_except(e).logs
    /\ raised' = e
    /\ termination' = main_except(e).termination
    /\ pc' = after_raise(pc)
    /\ UNCHANGED <<inputs, discovery, raw_state, state, selected_catalog_entries, entry,
                   iter, record, out, queried, prev_run>>

Raise == \E e \in ExceptionClasses : Fail(e)

Step ==
    \/ MainImpl
    \/ DoSync
    \/ ForEntry
    \/ Return
    \/ NextRec
    \/ EndOfStream
    \/ Transform
    \/ WriteRecord
    \/ WriteBookmark
    \/ WriteState

Next == Step \/ Raise

Spec == Init /\ [][Next]_vars

SpecBuild == InitBuild /\ [][MainImpl]_vars

\* ------------------------------------------------------- crash and resume
IsCheckpoint(ev) == ev.type = "STATE"

Checkpoints(o) == SelectSeq(o, IsCheckpoint)

\* the State document whoever persists the checkpoints holds after a run
\* that wrote o, having held prev before it
LastCheckpoint(o, prev) ==
    IF Checkpoints(o) = <<>> THEN prev
    ELSE Checkpoints(o)[Len(Checkpoints(o))].value

Running ==
    pc \in {"main_impl", "do_sync", "for_entry", "next_rec", "transform",
            "write_record", "write_bookmark", "write_state"}

\* the process is killed at any point of its first run
Crash ==
    /\ Running
    /\ prev_run = NoRun
    /\ pc' = "crashed"
    /\ termination' = [path |-> "killed", fault |-> None, status |-> NoneValue]
    /\ UNCHANGED <<inputs, discovery, raw_state, state, selected_catalog_entries, entry,
                   iter, record, out, queried, scopes, logs, raised, prev_run>>

\* a new process is started on the same catalog and the same remote data,
\* with the last checkpoint the crashed run emitted as its --state
Resume ==
    /\ pc = "crashed"
    /\ raw_state' = LastCheckpoint(out, raw_state)
    /\ prev_run' = [raw_state |-> raw_state, out |-> out]
    /\ pc' = "main_impl"
    /\ state' = InitialState
    /\ selected_catalog_entries' = <<>>
    /\ entry' = 0
    /\ iter' = <<>>
    /\ record' = NoRecord
    /\ out' = <<>>
    /\ queried' = <<>>
    /\ scopes' = <<>>
    /\ logs' = <<>>
    /\ raised' = None
    /\ termination' = NotTerminated
    /\ UNCHANGED <<inputs, discovery>>

InitResume == Init

NextResume == Step \/ Crash \/ Resume

SpecResume == InitResume /\ [][NextResume]_vars

\* ------------------------------------------------------------ --discover
\* a run with --discover, on every description of one entity: no catalog,
\* no previous State, no remote records
InitDiscover ==
    /\ \E n \in SobjectNames, fl \in FieldLists :
          sobjects = <<[name |-> n, fields |-> fl]>>
    /\ rate_limit = None
    /\ catalog_file = NoFile
    /\ catalog = <<>>
    /\ source = [s \in StreamIdSet |-> <<>>]
    /\ raw_state = EmptyMap
    /\ start_date = 1
    /\ pc = "do_discover"
    /\ state = InitialState
    /\ selected_catalog_entries = <<>>
    /\ entry = 0
    /\ iter = <<>>
    /\ record = NoRecord
    /\ out = <<>>
    /\ queried = <<>>
    /\ scopes = <<>>
    /\ logs = <<>>
    /\ raised = None
    /\ termination = NotTerminated
    /\ prev_run = NoRun

sync == <<raw_state, state, selected_catalog_entries, entry, iter, record,
          out, queried, scopes, prev_run>>

\* main_impl, discover branch: the describe calls leave the header r in
\* salesforce.rate_limit, the pattern is searched in it, the catalog is built
\* and dumped to /tmp/catalog.json, and main ends
Discover(r) ==
    /\ pc = "do_discover"
    /\ re_search(r) # "TypeError"
    /\ rate_limit' = r
    /\ catalog_file' = <<do_discover(sobjects)>>
    /\ termination' = main_return
    /\ pc' = "exited"
    /\ UNCHANGED <<inputs, sync, sobjects, logs, raised>>

\* re.search raises: do_discover has no handler, main's except clause logs
\* the exception and raises it again
DiscoverRaises(r) ==
    /\ pc = "do_discover"
    /\ re_search(r) = "TypeError"
    /\ rate_limit' = r
    /\ logs' = logs \o main_except(re_search(r)).logs
    /\ raised' = re_search(r)
    /\ termination' = main_except(re_search(r)).termination
    /\ pc' = "exited"
    /\ UNCHANGED <<inputs, sync, sobjects, catalog_file>>

NextDiscover ==
    \/ \E r \in RateLimits : Discover(r)
    \/ \E r \in RateLimits : DiscoverRaises(r)

SpecDiscover == InitDiscover /\ [][NextDiscover]_vars

\* ============================================================== properties
\* the record events of one stream, in the order written
RecordsOf(o, name) ==
    LET OfStream(ev) == ev.type = "RECORD" /\ ev.stream = name
    IN  SelectSeq(o, OfStream)

Last(seq) == seq[Len(seq)]

Entries == {catalog[i] : i \in 1..Len(catalog)}

EntryOfStream(name) == CHOOSE e \in Entries : e.stream = name

\* the selected entries that have a replication key
CursorEntries == {e \in Entries : e.selected /\ e.replication_key # None}

IsCursorRecord(ev) ==
    ev.type = "RECORD" /\ EntryOfStream(ev.stream).replication_key # None

\* the State build_state gave this run
BuiltState == build_state(raw_state, catalog, start_date)

\* the positions before the next record is pulled, and while it is
\* processed up to its emission
BeforeNextEmission == pc \in {"for_entry", "next_rec", "transform", "write_record"}

\* C1: whenever do_sync is about to pull or process the next record (of any
\* stream), the bookmark of every stream with a replication key that has
\* emitted a record equals the cursor value of the last record it emitted.
C1_BookmarkIsLastEmittedCursor ==
    BeforeNextEmission =>
        \A e \in Entries :
            (e.replication_key # None /\ RecordsOf(out, e.stream) # <<>>) =>
                get_bookmark(state, e.tap_stream_id, e.replication_key)
                    = Last(RecordsOf(out, e.stream)).record[e.replication_key]

\* C1 witness: a record was emitted, its cursor value replaced the bookmark
\* that build_state gave, and the next record is about to be pulled.
C1_Witness ==
    /\ pc = "next_rec"
    /\ iter # <<>>
    /\ \E e \in CursorEntries :
          /\ RecordsOf(out, e.stream) # <<>>
          /\ get_bookmark(state, e.tap_stream_id, e.replication_key)
               # get_bookmark(BuiltState, e.tap_stream_id, e.replication_key)
          /\ get_bookmark(state, e.tap_stream_id, e.replication_key)
               = Last(RecordsOf(out, e.stream)).record[e.replication_key]

\* C2: in the output of do_sync every record event of a stream with a
\* replication key is followed at once by exactly one checkpoint, which holds
\* the whole State (a bookmark for every selected stream with a replication
\* key) with that stream's bookmark set to the record's cursor value; the
\* record event may be the last event only while its bookmark update and
\* checkpoint are still to come or when the run failed there.  A record event
\* of a stream with no replication key is never followed by a checkpoint, and
\* every checkpoint follows such a record event, so the checkpoints are as
\* many as the fully processed records of streams with a replication key.
C2_CheckpointAfterEachCursorRecord ==
    /\ \A i \in 1..Len(out) :
          /\ IsCursorRecord(out[i]) =>
                LET e == EntryOfStream(out[i].stream)
                IN  IF i < Len(out)
                    THEN /\ out[i + 1].type = "STATE"
                         /\ DOMAIN out[i + 1].value
                              = {c.tap_stream_id : c \in CursorEntries}
                         /\ get_bookmark(out[i + 1].value, e.tap_stream_id,
                                         e.replication_key)
                              = out[i].record[e.replication_key]
                         /\ (i + 2 <= Len(out) => out[i + 2].type = "RECORD")
                    ELSE pc \in {"write_bookmark", "write_state"}
                           \/ raised # None
          /\ (out[i].type = "RECORD" /\ ~IsCursorRecord(out[i]) /\ i < Len(out))
                => out[i + 1].type = "RECORD"
          /\ out[i].type = "STATE" => (i > 1 /\ IsCursorRecord(out[i - 1]))
    /\ (out # <<>> /\ Last(out).type = "STATE") => Last(out).value = state
    /\ Len(Checkpoints(out))
         = Cardinality({i \in 1..Len(out) : IsCursorRecord(out[i])})
             - (IF out # <<>> /\ IsCursorRecord(Last(out)) THEN 1 ELSE 0)

\* C2 witness: a run that has written records of a stream with a replication
\* key and of a stream without one, with a checkpoint after the former only.
C2_Witness ==
    /\ pc = "exited"
    /\ termination = main_return
    /\ Len(Checkpoints(out)) >= 2
    /\ \E i \in 1..Len(out) : out[i].type = "RECORD" /\ ~IsCursorRecord(out[i])
    /\ \E i \in 1..Len(out) - 1 : IsCursorRecord(out[i]) /\ out[i + 1].type = "STATE"

\* ------------------------------------------------------- crash and resume
Resumed == prev_run # NoRun

\* the Ids of the records of a stream among the events o
EmittedIds(o, name) ==
    {RecordsOf(o, name)[i].record["Id"] : i \in 1..Len(RecordsOf(o, name))}

\* the records of a stream the crashed run had emitted and the resumed run
\* has emitted again
ReEmitted(name) == EmittedIds(prev_run.out, name) \cap EmittedIds(out, name)

\* all of them, as pairs of a stream and a record Id
AllReEmitted ==
    {p \in StreamIdSet \X (1..MaxRecs) : p[2] \in ReEmitted(p[1])}

CursorOf(e, r) == r[e.replication_key]

\* the remote records of e come in non-decreasing / strictly increasing
\* cursor order
NonDecreasing(e) ==
    \A i, j \in 1..Len(source[e.tap_stream_id]) :
        i < j => CursorOf(e, source[e.tap_stream_id][i])
                   <= CursorOf(e, source[e.tap_stream_id][j])

StrictlyIncreasing(e) ==
    \A i, j \in 1..Len(source[e.tap_stream_id]) :
        i < j => CursorOf(e, source[e.tap_stream_id][i])
                   < CursorOf(e, source[e.tap_stream_id][j])

\* the crash fell after a record of e was emitted and before its checkpoint
InFlightAtCrash(e) ==
    /\ prev_run.out # <<>>
    /\ Last(prev_run.out).type = "RECORD"
    /\ Last(prev_run.out).stream = e.stream

C4_NoRecordLost ==
    (/\ Resumed
     /\ pc = "exited"
     /\ termination = main_return
     /\ \A e \in CursorEntries : NonDecreasing(e))
        => \A e \in CursorEntries :
              \A i \in 1..Len(source[e.tap_stream_id]) :
                  LET r == source[e.tap_stream_id][i]
                      started == get_bookmark(
                                    build_state(prev_run.raw_state, catalog, start_date),
                                    e.tap_stream_id, e.replication_key)
                  IN  CursorOf(e, r) >= started
                        => r["Id"] \in EmittedIds(prev_run.out, e.stream)
                                         \cup EmittedIds(out, e.stream)

\* C4 witness: the crash fell in the middle of a stream with a replication
\* key; the resumed run has completed and has emitted a record the crashed
\* run had not reached.
C4_Witness ==
    /\ Resumed
    /\ pc = "exited"
    /\ termination = main_return
    /\ \A e \in CursorEntries : NonDecreasing(e)
    /\ \E e \in CursorEntries :
          /\ EmittedIds(prev_run.out, e.stream) # {}
          /\ EmittedIds(out, e.stream) \ EmittedIds(prev_run.out, e.stream) # {}

\* ------------------------------------------------------------- build_state
HasValue(st, e) ==
    /\ e.tap_stream_id \in DOMAIN st
    /\ e.replication_key \in DOMAIN st[e.tap_stream_id]

BookmarkOf(st, e) == get_bookmark(st, e.tap_stream_id, e.replication_key)

\* C5: at every point of a run, the State has a key only for a catalog entry
\* that is selected and has a replication key, whatever the previous State
\* held.
C5_OnlySelectedCursorStreams ==
    DOMAIN state \subseteq {e.tap_stream_id : e \in CursorEntries}

\* C5 witness: the previous State held a bookmark for an entry that is not
\* selected or has no replication key; records have been processed and the
\* State holds bookmarks, none of them for that entry.
C5_Witness ==
    /\ Checkpoints(out) # <<>>
    /\ state # EmptyMap
    /\ \E e \in Entries \ CursorEntries :
          /\ e.tap_stream_id \in DOMAIN raw_state
          /\ e.tap_stream_id \notin DOMAIN state

\* C6 as claimed: build_state carries forward whatever value the previous
\* State has at the replication key of a selected entry.
C6_AnyValueCarriedForward ==
    pc = "do_sync" =>
        \A e \in CursorEntries :
            HasValue(raw_state, e) => BookmarkOf(state, e) = BookmarkOf(raw_state, e)

\* C6 amended: build_state carries forward, unchanged, the value the previous
\* State has at the replication key of a selected entry when that value is
\* not empty (Python-truthy); it does not replace it with start_date.
C6_NonEmptyValueCarriedForward ==
    pc = "do_sync" =>
        \A e \in CursorEntries :
            (HasValue(raw_state, e) /\ Truthy(BookmarkOf(raw_state, e)))
                => BookmarkOf(state, e) = BookmarkOf(raw_state, e)

\* C6 witness: build_state has carried forward a value that differs from
\* start_date.
C6_Witness ==
    /\ pc = "do_sync"
    /\ \E e \in CursorEntries :
          /\ HasValue(raw_state, e)
          /\ Truthy(BookmarkOf(raw_state, e))
          /\ BookmarkOf(raw_state, e) # start_date
          /\ BookmarkOf(state, e) = BookmarkOf(raw_state, e)

\* C7: for a selected entry with a replication key for which the previous
\* State has no value at that key, build_state sets the bookmark to
\* start_date itself.
C7_MissingBookmarkIsStartDate ==
    pc = "do_sync" =>
        \A e \in CursorEntries :
            ~HasValue(raw_state, e)
                => HasValue(state, e) /\ BookmarkOf(state, e) = start_date

\* C7 witness: build_state has run on a previous State that lacks the
\* bookmark of one selected entry (it has the entity under another key) and
\* holds the bookmark of another.
C7_Witness ==
    /\ pc = "do_sync"
    /\ \E e \in CursorEntries :
          /\ e.tap_stream_id \in DOMAIN raw_state
          /\ ~HasValue(raw_state, e)
          /\ BookmarkOf(state, e) = start_date
    /\ \E e \in CursorEntries :
          HasValue(raw_state, e) /\ BookmarkOf(state, e) # start_date

\* -------------------------------------------------------------------- main
\* C8 as claimed: an operational failure raised in a run is logged at
\* critical severity and the process ends by the controlled exit with
\* status 1, not by a propagated fault.
C8_OperationalFailureExitsWithOne ==
    raised = TapSalesforceException =>
        /\ logs = <<TapSalesforceException>>
        /\ termination.path = "sys.exit"
        /\ termination.status = 1

\* C9 as claimed: a failure that is not operational is logged once at
\* critical severity, the same fault propagates out of main, and the way
\* the process ends differs from the way it ends on an operational failure.
C9_UnclassifiedFailureDistinguishable ==
    raised \notin {None, TapSalesforceException} =>
        /\ logs = <<raised>>
        /\ termination.path = "propagated"
        /\ termination.fault = raised
        /\ termination # main_except(TapSalesforceException).termination

\* ------------------------------------------------------- failure in do_sync
\* the selected entries bulk_query has been called for are the first ones,
\* in order, up to the entry being synced
QueriedIsPrefix ==
    /\ Len(queried) <= Len(selected_catalog_entries)
    /\ \A i \in 1..Len(queried) :
          queried[i] = selected_catalog_entries[i].tap_stream_id

\* the index in o of its last checkpoint
LastCheckpointIndex(o) ==
    CHOOSE i \in 1..Len(o) :
        o[i].type = "STATE" /\ \A j \in (i + 1)..Len(o) : o[j].type # "STATE"

\* C10: once a step of do_sync has raised, no event is written and no entry
\* is queried any more (the step that raised writes nothing either), so what
\* was written before stays as it is; no entry after the failing one has
\* been queried; and the last checkpoint written holds the bookmark of the
\* last record that was emitted together with its checkpoint.
C10_FailureAbortsRun ==
    /\ [][raised' # None => (out' = out /\ queried' = queried)]_vars
    /\ [](raised # None =>
            /\ QueriedIsPrefix
            /\ Len(queried) <= entry
            /\ \A i \in (entry + 1)..Len(selected_catalog_entries) :
                  \A j \in 1..Len(queried) :
                      queried[j] # selected_catalog_entries[i].tap_stream_id
            /\ Checkpoints(out) # <<>> =>
                  LET k == LastCheckpointIndex(out)
                      e == EntryOfStream(out[k - 1].stream)
                  IN  /\ IsCursorRecord(out[k - 1])
                      /\ BookmarkOf(out[k].value, e)
                           = out[k - 1].record[e.replication_key])

\* C10 witness: a run has failed in its second selected stream, after the
\* first was synced completely and a record of the second was emitted with
\* its checkpoint.
C10_Witness ==
    /\ raised # None
    /\ Len(selected_catalog_entries) = 2
    /\ Len(queried) = 2
    /\ \A e \in Entries :
          /\ e.replication_key # None
          /\ RecordsOf(out, e.stream) # <<>>
    /\ Last(out).type = "STATE"
    /\ iter # <<>>

\* ----------------------------------------------------------- discovery
Discovered == pc = "exited" /\ catalog_file # NoFile

\* the entity described, and the catalog entry written for it
TheSobject == sobjects[1]
TheEntry == catalog_file[1].streams[1]
TheNames == {TheSobject.fields[i].name : i \in DOMAIN TheSobject.fields}
TheProperties == TheEntry.schema.properties

\* the compoundFieldName values the fields of the entity declare
DeclaredCompounds ==
    {TheSobject.fields[i].compoundFieldName : i \in DOMAIN TheSobject.fields} \ {None}

Priority == <<"SystemModstamp", "LastModifiedDate", "CreatedDate">>

\* C11: the replication key of a discovered entity is the first of
\* SystemModstamp, LastModifiedDate, CreatedDate among its field names; when
\* none of them is a field name it is LoginTime if LoginTime is a field name
\* and the entity is LoginHistory, and null otherwise.  It is never LoginTime
\* for another entity and never a name that is not a field name.
C11_ReplicationKeyByPriority ==
    Discovered =>
        LET rk == TheEntry.replication_key
            present == {i \in 1..Len(Priority) : Priority[i] \in TheNames}
        IN  /\ present # {} =>
                \E i \in present : rk = Priority[i] /\ \A j \in present : i <= j
            /\ present = {} =>
                rk = (IF "LoginTime" \in TheNames /\ TheSobject.name = "LoginHistory"
                      THEN "LoginTime" ELSE None)
            /\ rk = "LoginTime" => TheSobject.name = "LoginHistory"
            /\ rk # None => rk \in TheNames

\* an entity with both CreatedDate and LastModifiedDate got LastModifiedDate
C11_Witness ==
    /\ Discovered
    /\ {"CreatedDate", "LastModifiedDate"} \subseteq TheNames
    /\ TheEntry.replication_key = "LastModifiedDate"

\* the description with every compoundFieldName that names no field cleared
WithoutOrphans(sobject) ==
    [sobject EXCEPT !.fields =
        [i \in DOMAIN sobject.fields |->
            IF sobject.fields[i].compoundFieldName
                  \in {sobject.fields[j].name : j \in DOMAIN sobject.fields}
            THEN sobject.fields[i]
            ELSE [sobject.fields[i] EXCEPT !.compoundFieldName = None]]]

\* C12: no key of the properties of a discovered entity is the
\* compoundFieldName declared by one of its fields, and a compoundFieldName
\* that names no field has no effect on the catalog entry.
C12_NoCompositeAmongProperties ==
    Discovered =>
        /\ DOMAIN TheProperties \cap DeclaredCompounds = {}
        /\ TheEntry = entry_of(WithoutOrphans(TheSobject))

\* a composite field was dropped while another field named a composite that
\* is no field
C12_Witness ==
    /\ Discovered
    /\ "Name" \in TheNames \cap DeclaredCompounds
    /\ "Name" \notin DOMAIN TheProperties
    /\ "Address" \in DeclaredCompounds

\* the fields of the entity that declare a compoundFieldName
Components ==
    {TheSobject.fields[i].name :
        i \in {j \in DOMAIN TheSobject.fields :
                  TheSobject.fields[j].compoundFieldName # None}}

\* C13 as stated: every field that declares a compoundFieldName is a key of
\* the properties, also when its own name is the compoundFieldName of
\* another field.
C13_EveryComponentKept ==
    Discovered => Components \subseteq DOMAIN TheProperties

\* C13: every field that declares a compoundFieldName, and whose own name is
\* not the compoundFieldName of any field of the entity, is a key of the
\* properties; a component that is itself named as a composite is dropped.
C13_ComponentKeptUnlessComposite ==
    Discovered =>
        /\ Components \ DeclaredCompounds \subseteq DOMAIN TheProperties
        /\ Components \cap DeclaredCompounds \cap DOMAIN TheProperties = {}

\* the component FirstName of the composite Name was kept and Name, itself
\* a component of Address, was dropped
C13_Witness ==
    /\ Discovered
    /\ "FirstName" \in Components \cap DOMAIN TheProperties
    /\ "Name" \in Components \cap DeclaredCompounds
    /\ "Name" \notin DOMAIN TheProperties

\* C14 as stated: for every entity whose field list contains Id, whatever
\* compoundFieldName its fields declare, the schema has a property Id whose
\* inclusion is automatic.
C14_IdAlwaysAutomatic ==
    (Discovered /\ "Id" \in TheNames) =>
        /\ "Id" \in DOMAIN TheProperties
        /\ TheProperties["Id"].inclusion = "automatic"

\* C14: for every entity whose field list contains Id, the schema has a
\* property Id exactly when no field of the entity declares Id as its
\* compoundFieldName, and the inclusion of that property is automatic.
C14_IdAutomaticUnlessComposite ==
    (Discovered /\ "Id" \in TheNames) =>
        /\ "Id" \in DOMAIN TheProperties <=> "Id" \notin DeclaredCompounds
        /\ "Id" \in DOMAIN TheProperties =>
              TheProperties["Id"].inclusion = "automatic"

\* an entity with Id and a component of a composite: Id is automatic
C14_Witness ==
    /\ Discovered
    /\ "Id" \in TheNames
    /\ DeclaredCompounds # {}
    /\ "Id" \in DOMAIN TheProperties
    /\ TheProperties["Id"].inclusion = "automatic"

\* every property but Id and the replication key has the inclusion available
OthersAvailable ==
    \A k \in DOMAIN TheProperties \ {"Id", TheEntry.replication_key} :
        TheProperties[k].inclusion = "available"

\* C15 as stated: when the replication key of a catalog entry is not null
\* the properties contain it with the inclusion automatic, and every
\* property other than Id and the replication key has the inclusion
\* available.
C15_ReplicationKeyAlwaysAutomatic ==
    Discovered =>
        /\ TheEntry.replication_key # None =>
              /\ TheEntry.replication_key \in DOMAIN TheProperties
              /\ TheProperties[TheEntry.replication_key].inclusion = "automatic"
        /\ OthersAvailable

\* C15: when the replication key of a catalog entry is not null the
\* properties contain it exactly when no field of the entity declares it as
\* its compoundFieldName, and then its inclusion is automatic; every property
\* other than Id and the replication key has the inclusion available.
C15_ReplicationKeyAutomaticUnlessComposite ==
    Discovered =>
        /\ TheEntry.replication_key # None =>
              /\ TheEntry.replication_key \in DOMAIN TheProperties
                    <=> TheEntry.replication_key \notin DeclaredCompounds
              /\ TheEntry.replication_key \in DOMAIN TheProperties =>
                    TheProperties[TheEntry.replication_key].inclusion = "automatic"
        /\ OthersAvailable

\* the replication key is automatic beside a property that is available
C15_Witness ==
    /\ Discovered
    /\ TheEntry.replication_key \in DOMAIN TheProperties
    /\ TheProperties[TheEntry.replication_key].inclusion = "automatic"
    /\ \E k \in DOMAIN TheProperties : TheProperties[k].inclusion = "available"

\* C16: whatever salesforce.rate_limit holds (no value, a string the pattern
\* does not match, a well-formed header), discovery raises nothing and the
\* catalog it returns is the one it returns with a well-formed header.
C16_RateLimitHeaderNeverFails ==
    pc = "exited" =>
        /\ raised = None
        /\ termination = main_return
        /\ catalog_file = <<do_discover(sobjects)>>

\* -------------------------------------------------------------- do_sync
\* C17: when the records of a stream come from bulk_query in non-decreasing
\* cursor order, and only those at or after the bookmark it was given, the
\* bookmark of that stream never decreases during a sync run: every write
\* sets it to a value at or above the one it had, from the value build_state
\* gave it on.
C17_BookmarkNeverDecreases ==
    /\ [][\A e \in CursorEntries :
            (NonDecreasing(e) /\ HasValue(state, e)) =>
                /\ HasValue(state', e)
                /\ BookmarkOf(state', e) >= BookmarkOf(state, e)]_vars
    /\ [](\A e \in CursorEntries :
            (NonDecreasing(e) /\ HasValue(state, e)) =>
                BookmarkOf(state, e) >= BookmarkOf(BuiltState, e))

\* the bookmark of a stream was written twice, the second time to a value
\* above the one build_state gave
C17_Witness ==
    \E e \in CursorEntries :
        /\ NonDecreasing(e)
        /\ Len(RecordsOf(out, e.stream)) = 2
        /\ CursorOf(e, RecordsOf(out, e.stream)[1].record) = BookmarkOf(BuiltState, e)
        /\ CursorOf(e, RecordsOf(out, e.stream)[2].record)
              > CursorOf(e, RecordsOf(out, e.stream)[1].record)
        /\ BookmarkOf(state, e) = CursorOf(e, RecordsOf(out, e.stream)[2].record)

\* the tap_stream_ids of the selected entries, in catalog order
SelectedIds ==
    LET Sel(e) == e.selected
        sel == SelectSeq(catalog, Sel)
    IN  [i \in 1..Len(sel) |-> sel[i].tap_stream_id]

\* the position in the catalog of the entry of a stream
CatalogIndex(name) == CHOOSE i \in 1..Len(catalog) : catalog[i].stream = name

RecordEvents(o) ==
    LET IsRec(ev) == ev.type = "RECORD"
    IN  SelectSeq(o, IsRec)

\* C18: the selected entries are processed one after another in catalog
\* order: bulk_query is called once for each selected entry, in that order,
\* and never for an entry that is not selected; every record event of an
\* earlier entry precedes every record event of a later one; and the records
\* of a stream are emitted in the order bulk_query produced them.
C18_StreamsInCatalogOrder ==
    /\ Len(queried) <= Len(SelectedIds)
    /\ queried = SubSeq(SelectedIds, 1, Len(queried))
    /\ termination = main_return => queried = SelectedIds
    /\ \A i, j \in 1..Len(RecordEvents(out)) :
          i < j => CatalogIndex(RecordEvents(out)[i].stream)
                     <= CatalogIndex(RecordEvents(out)[j].stream)
    /\ \A e \in Entries :
          LET produced == bulk_query(e, BuiltState)
              emitted == RecordsOf(out, e.stream)
          IN  /\ emitted # <<>> => \E i \in 1..Len(queried) : queried[i] = e.tap_stream_id
              /\ Len(emitted) <= Len(produced)
              /\ \A k \in 1..Len(emitted) : emitted[k].record = produced[k]
              /\ (termination = main_return /\ e.selected) => Len(emitted) = Len(produced)
              /\ (emitted # <<>> /\ Last(queried) # e.tap_stream_id) =>
                    Len(emitted) = Len(produced)

\* a run over two selected entries that returned, each with two records
C18_Witness ==
    /\ termination = main_return
    /\ Len(queried) = 2
    /\ \A e \in Entries : Len(RecordsOf(out, e.stream)) = 2

\* the positions inside the record loop of a catalog entry
InStreamLoop ==
    pc \in {"next_rec", "transform", "write_record", "write_bookmark", "write_state"}

\* C19: the transformer and the counter of a stream are both released on
\* every exit from the loop of that stream, by its normal end or by a failure
\* raised inside it: at most one transformer and one counter are open at any
\* time, they are open only inside the loop of a stream, and none is open
\* once do_sync has returned or failed.
C19_ScopesReleased ==
    /\ scopes \in {<<>>, <<"transformer", "counter">>}
    /\ scopes # <<>> <=> InStreamLoop
    /\ (pc = "exited" \/ raised # None \/ termination # NotTerminated) => scopes = <<>>

\* the loop of the first stream ended, and a failure was raised inside the
\* loop of the second while records were left to pull
C19_Witness ==
    /\ raised # None
    /\ Len(queried) = 2
    /\ iter # <<>>
    /\ scopes = <<>>

\* the State documents st and st2 agree on every bookmark but the one of
\* stream id at key
SameBut(st, st2, id, key) ==
    /\ \A s \in (DOMAIN st \cup DOMAIN st2) \ {id} :
          s \in DOMAIN st /\ s \in DOMAIN st2 /\ st2[s] = st[s]
    /\ (id \in DOMAIN st /\ id \in DOMAIN st2) =>
          \A k \in (DOMAIN st[id] \cup DOMAIN st2[id]) \ {key} :
              k \in DOMAIN st[id] /\ k \in DOMAIN st2[id] /\ st2[id][k] = st[id][k]

\* C20: processing a record of a stream changes at most the bookmark of that
\* stream at its replication key: the bookmarks of the other streams stay as
\* they are, so every checkpoint emitted while a stream is synced carries,
\* for each stream not yet synced, the bookmark build_state gave it; and
\* processing a record of a stream without a replication key leaves the
\* State unchanged.
C20_OnlyOwnBookmarkChanges ==
    /\ [][InStreamLoop =>
            /\ SameBut(state, state', catalog_entry.tap_stream_id,
                       catalog_entry.replication_key)
            /\ catalog_entry.replication_key = None => state' = state]_vars
    /\ [](\A i \in 2..Len(out) :
            out[i].type = "STATE" =>
                \A e \in CursorEntries :
                    CatalogIndex(e.stream) > CatalogIndex(out[i - 1].stream) =>
                        /\ e.tap_stream_id \in DOMAIN out[i].value
                        /\ out[i].value[e.tap_stream_id] = BuiltState[e.tap_stream_id])

\* a checkpoint of the first stream carries a new bookmark for it and the
\* bookmark build_state gave the second, and the second stream's own
\* checkpoint then moves that one
C20_Witness ==
    /\ \A i \in 1..NumStreams : catalog[i] \in CursorEntries
    /\ Len(out) >= 4
    /\ out[2].type = "STATE"
    /\ out[1].stream = StreamIds[1]
    /\ out[2].value[StreamIds[1]] # BuiltState[StreamIds[1]]
    /\ out[2].value[StreamIds[2]] = BuiltState[StreamIds[2]]
    /\ Last(out).type = "STATE"
    /\ out[Len(out) - 1].stream = StreamIds[2]
    /\ Last(out).value[StreamIds[2]] # BuiltState[StreamIds[2]]

====
